---- MODULE Spec2Model ----
(***************************************************************************)
(* Model of horizon's ingest.System (ingest/system.go): the Tick/runOnce   *)
(* single-flight scheduler, the ledger-chain validator and the             *)
(* ReingestOutdated backlog loop.                                          *)
(***************************************************************************)
EXTENDS Integers, Sequences, FiniteSets, TLC

\* ------------------------------------------------------------------ bounds
NumTicks == 2      \* concurrent callers of Tick
MaxLedger == 2     \* highest ledger sequence of the cached ledger state
MaxOutdated == 5   \* highest ledger sequence the outdated query can return
MaxCalls == 4      \* cap on ReingestRange calls of one ReingestOutdated call
NumHashes == 2     \* distinct ledger hash values

Ticks == 1..NumTicks
Hashes == 1..NumHashes

VARIABLES
  \* ---- ledger package: the cached state ledger.CurrentState() returns
  ledgerState,
  \* ---- System
  lock,        \* i.lock: 0 when free, else the caller holding it
  current,     \* i.current: 0 for nil, else the id of the installed Session
  session,     \* the Session objects, by id (the id of the Tick that made it)
  \* ---- one Tick call per caller
  pc,          \* position of the caller inside Tick / runOnce
  is,          \* Tick's local `is` (0 for nil)
  rls,         \* runOnce's local `ls`: the field read after the stash, CoreElder
  ris,         \* runOnce's local `is` (0 for nil)
  result,      \* what the call gave its caller: "none", "nil", "session", "panic"
  \* ---- observations of the call in progress
  hl,          \* the HistoryLatest newTickSession read (0 outside a run)
  validated,   \* "none", "ok", "fail": validateLedgerChain's outcome in this call
  ran,         \* is.Run() was started in this call
  reported,    \* errors.ReportToSentry ran in this call
  gapLogged,   \* the "ledger gap detected" error was logged at least once
  \* ---- ReingestOutdated (one call)
  rpc,         \* position inside ReingestOutdated
  outdatedSet, \* history store: sequences ingested by an older version
  outdated,    \* local `outdated`
  idx,         \* loop index into outdated (1-based)
  start,       \* local `start`
  end,         \* local `end`
  n,           \* named result n
  err,         \* named result err
  after,       \* which flush() call is running: "loop" or "final"
  rsession,    \* the Session ReingestRange is running
  calls,       \* log of the ReingestRange calls made, in order
  iter,        \* number of OldestOutdatedLedgers queries issued
  backlog0,    \* the outdated set when ReingestOutdated was called
  faithful,    \* every successful Session so far cleared its whole range
  \* ---- history store, as the reingestion Sessions write it
  store,       \* per ledger: "none", "stale" or "fresh" destination data
  lastOk,      \* the range of the latest run of successful ReingestRange
               \* calls over one range, and their count (capped)
  \* ---- a direct call of validateLedgerChain
  coreDB,      \* core store: the header of each sequence, or NotFound
  vseq,        \* the argument seq (0 before the call)
  vres         \* the error returned ("none" before the call)

tickVars == <<ledgerState, lock, current, session, pc, is, rls, ris, result,
              hl, validated, ran, reported, gapLogged>>
reingestVars == <<rpc, outdatedSet, outdated, idx, start, end, n, err, after,
                  rsession, calls, iter, backlog0, faithful>>
auxVars == <<store, lastOk, coreDB, vseq, vres>>
vars == <<tickVars, reingestVars, auxVars>>

\* ------------------------------------------------------------ ledger state
\* ledger.State: CoreElder <= CoreLatest are the bounds of the core store,
\* HistoryLatest is 0 for an empty history.
LedgerStates ==
  {s \in [CoreElder : 1..MaxLedger, CoreLatest : 1..MaxLedger,
          HistoryLatest : 0..MaxLedger] : s.CoreElder <= s.CoreLatest}

\* A core holding its first ledger and an empty history.
FreshState == [CoreElder |-> 1, CoreLatest |-> 1, HistoryLatest |-> 0]

NoSession == [FirstLedger |-> 0, LastLedger |-> 0, ClearExisting |-> FALSE,
              Ingested |-> 0, Err |-> "unset"]

\* NewSession(first, last, i): a fresh Session whose Cursor covers
\* [first, last]; ClearExisting, Ingested and Err start at their zero values.
NewSession(first, last) ==
  [FirstLedger |-> first, LastLedger |-> last, ClearExisting |-> FALSE,
   Ingested |-> 0, Err |-> "nil"]

\* Session.Run: the outcomes the worker can report for [first, last]: success
\* with every ledger of the range ingested, or an error after ingesting fewer.
RunOutcomes(first, last) ==
  {[Ingested |-> last - first + 1, Err |-> "nil"]}
    \cup {[Ingested |-> k, Err |-> "session"] : k \in 0..(last - first)}

\* The ledgers whose destination data the model observes.
StoreLedgers == 1..MaxLedger

\* Destination data of one ledger: none, rows left by an earlier ingestion, or
\* the rows an ingestion of the (immutable) core ledger writes.
Rows == {"none", "stale", "fresh"}

\* Session.Run: the history store after a run of Session s over the store st
\* that reported o. In clear-existing mode the Session removes the data of its
\* whole range before it writes; otherwise it ingests only missing data.
RunWrites(st, s, o) ==
  LET range == s.FirstLedger..s.LastLedger
      done == s.FirstLedger..(s.FirstLedger + o.Ingested - 1)
  IN  [l \in DOMAIN st |->
         IF l \notin range THEN st[l]
         ELSE IF s.ClearExisting
           THEN (IF l \in done THEN "fresh" ELSE "none")
         ELSE IF l \in done /\ st[l] = "none" THEN "fresh"
         ELSE st[l]]

\* newTickSession's Session for the ledger state ls it reads.
newTickSession_EndIsElder(ls) ==
  NewSession(IF ls.HistoryLatest = 0 THEN ls.CoreElder
             ELSE ls.HistoryLatest + 1,
             ls.CoreElder)

newTickSession(ls) ==
  NewSession(IF ls.HistoryLatest = 0 THEN ls.CoreElder
             ELSE ls.HistoryLatest + 1,
             ls.CoreLatest)

\* ---------------------------------------------------------- chain validator
NotFound == [found |-> FALSE, LedgerHash |-> 0, PrevHash |-> 0]

Headers == {[found |-> TRUE, LedgerHash |-> h, PrevHash |-> p] :
              h \in Hashes, p \in Hashes}

\* core.Q.LedgerHeaderBySequence: the header stored for seq, or not found.
LedgerHeaderBySequence(db, seq) ==
  IF seq \in DOMAIN db THEN db[seq] ELSE NotFound

\* validateLedgerChain as it would be if it compared cur with itself.
validateLedgerChain_SelfCompare(db, seq) ==
  LET cur == LedgerHeaderBySequence(db, seq)
      prev == LedgerHeaderBySequence(db, seq - 1)
  IN  IF ~cur.found THEN "failed to load cur ledger"
      ELSE IF ~prev.found THEN "failed to load prev ledger"
      ELSE IF cur.PrevHash # cur.LedgerHash
        THEN "cur and prev ledger hashes don't match"
      ELSE "nil"

\* validateLedgerChain(seq) against the core store db: "nil" on success.
validateLedgerChain(db, seq) ==
  LET cur == LedgerHeaderBySequence(db, seq)
      prev == LedgerHeaderBySequence(db, seq - 1)
  IN  IF ~cur.found THEN "failed to load cur ledger"
      ELSE IF ~prev.found THEN "failed to load prev ledger"
      ELSE IF cur.PrevHash # prev.LedgerHash
        THEN "cur and prev ledger hashes don't match"
      ELSE "nil"

\* The contents of the core store a lookup of seq and seq-1 can meet.
CoreDBs(seq) ==
  {[s \in {seq - 1, seq} |-> IF s = seq THEN c ELSE p] :
      c \in Headers \cup {NotFound}, p \in Headers \cup {NotFound}}

\* ------------------------------------------------------------------- Init
\* A System just constructed: no lock held, no current Session, no Tick called.
TickIdle ==
  /\ lock = 0
  /\ current = 0
  /\ session = [t \in Ticks |-> NoSession]
  /\ pc = [t \in Ticks |-> "idle"]
  /\ is = [t \in Ticks |-> 0]
  /\ rls = [t \in Ticks |-> 0]
  /\ ris = [t \in Ticks |-> 0]
  /\ result = [t \in Ticks |-> "none"]
  /\ hl = [t \in Ticks |-> 0]
  /\ validated = [t \in Ticks |-> "none"]
  /\ ran = [t \in Ticks |-> FALSE]
  /\ reported = [t \in Ticks |-> FALSE]
  /\ gapLogged = FALSE

TickInit ==
  /\ ledgerState = FreshState
  /\ TickIdle

ReingestIdle ==
  /\ rpc = "query"
  /\ outdated = <<>>
  /\ idx = 1
  /\ start = 0
  /\ end = 0
  /\ n = 0
  /\ err = "nil"
  /\ after = "none"
  /\ rsession = NoSession
  /\ calls = <<>>
  /\ iter = 0
  /\ faithful = TRUE
  /\ backlog0 = outdatedSet

\* No successful ReingestRange call yet.
NoRange == [first |-> 0, last |-> 0, times |-> 0]

\* An empty history store, no ReingestRange call made.
StoreIdle ==
  /\ store = [l \in StoreLedgers |-> "none"]
  /\ lastOk = NoRange

\* No direct validateLedgerChain call made, on an empty core store.
ValidatorIdle ==
  /\ coreDB = [s \in 0..MaxLedger |-> NotFound]
  /\ vseq = 0
  /\ vres = "none"

Init ==
  /\ TickInit
  /\ outdatedSet = {}
  /\ ReingestIdle
  /\ StoreIdle
  /\ ValidatorIdle

\* ------------------------------------------------------------ environment
\* The collaborator that refreshes the cached ledger state: one refresh brings
\* the news of the core store, whose bounds only move forward (ledgers are
\* appended and old ones pruned), or of the history store.
SetState(ls) ==
  /\ ls # ledgerState
  /\ \/ /\ ls.HistoryLatest = ledgerState.HistoryLatest
        /\ ls.CoreElder >= ledgerState.CoreElder
        /\ ls.CoreLatest >= ledgerState.CoreLatest
     \/ /\ ls.CoreElder = ledgerState.CoreElder
        /\ ls.CoreLatest = ledgerState.CoreLatest
  /\ ledgerState' = ls
  /\ UNCHANGED <<lock, current, session, pc, is, rls, ris, result, hl,
                 validated, ran, reported, gapLogged>>
  /\ UNCHANGED <<reingestVars, auxVars>>

\* ------------------------------------------------------------------- Tick
\* i.lock.Lock() at the head of Tick.
TickLock_NoMutex(t) ==
  /\ pc[t] = "idle"
  /\ lock' = t
  /\ pc' = [pc EXCEPT ![t] = "check"]
  /\ UNCHANGED <<ledgerState, current, session, is, rls, ris, result, hl,
                 validated, ran, reported, gapLogged>>
  /\ UNCHANGED <<reingestVars, auxVars>>

TickLock(t) ==
  /\ pc[t] = "idle"
  /\ lock = 0
  /\ lock' = t
  /\ pc' = [pc EXCEPT ![t] = "check"]
  /\ UNCHANGED <<ledgerState, current, session, is, rls, ris, result, hl,
                 validated, ran, reported, gapLogged>>
  /\ UNCHANGED <<reingestVars, auxVars>>

\* Tick as it would be if the busy branch went on to runOnce instead of
\* returning.
TickBusy_NoReturn(t) ==
  /\ pc[t] = "check"
  /\ current # 0
  /\ lock' = 0
  /\ pc' = [pc EXCEPT ![t] = "runOnce"]
  /\ UNCHANGED <<ledgerState, current, session, is, rls, ris, result, hl,
                 validated, ran, reported, gapLogged>>
  /\ UNCHANGED <<reingestVars, auxVars>>

\* if i.current != nil: log "already in progress", unlock, return nil.
TickBusy(t) ==
  /\ pc[t] = "check"
  /\ current # 0
  /\ lock' = 0
  /\ result' = [result EXCEPT ![t] = "nil"]
  /\ pc' = [pc EXCEPT ![t] = "done"]
  /\ UNCHANGED <<ledgerState, current, session, is, rls, ris, hl,
                 validated, ran, reported, gapLogged>>
  /\ UNCHANGED <<reingestVars, auxVars>>

\* i.current == nil: Tick goes on to build its Session, the lock still held.
TickFree(t) ==
  /\ pc[t] = "check"
  /\ current = 0
  /\ pc' = [pc EXCEPT ![t] = "install"]
  /\ UNCHANGED <<ledgerState, lock, current, session, is, rls, ris, result,
                 hl, validated, ran, reported, gapLogged>>
  /\ UNCHANGED <<reingestVars, auxVars>>

\* is := i.newTickSession(); i.current = is; i.lock.Unlock().
TickInstall(t) ==
  /\ pc[t] = "install"
  /\ session' = [session EXCEPT ![t] = newTickSession(ledgerState)]
  /\ is' = [is EXCEPT ![t] = t]
  /\ hl' = [hl EXCEPT ![t] = ledgerState.HistoryLatest]
  /\ current' = t
  /\ lock' = 0
  /\ pc' = [pc EXCEPT ![t] = "runOnce"]
  /\ UNCHANGED <<ledgerState, rls, ris, result, validated, ran, reported,
                 gapLogged>>
  /\ UNCHANGED <<reingestVars, auxVars>>

\* A panic inside newTickSession: Tick has no recover and no deferred unlock,
\* so the panic unwinds out of Tick with i.lock still held.
TickInstallPanic(t) ==
  /\ pc[t] = "install"
  /\ result' = [result EXCEPT ![t] = "panic"]
  /\ pc' = [pc EXCEPT ![t] = "done"]
  /\ UNCHANGED <<ledgerState, lock, current, session, is, rls, ris, hl,
                 validated, ran, reported, gapLogged>>
  /\ UNCHANGED <<reingestVars, auxVars>>

\* ---------------------------------------------------------------- runOnce
\* ls := ledger.CurrentState(), before the cleanup is deferred.
RunOnceState(t) ==
  /\ pc[t] = "runOnce"
  /\ rls' = [rls EXCEPT ![t] = ledgerState.CoreElder]
  /\ pc' = [pc EXCEPT ![t] = "stash"]
  /\ UNCHANGED <<ledgerState, lock, current, session, is, ris, result, hl,
                 validated, ran, reported, gapLogged>>
  /\ UNCHANGED <<reingestVars, auxVars>>

\* What the caller of Tick keeps once Tick has returned: the result only.
Returned(t, res) ==
  /\ pc' = [pc EXCEPT ![t] = "done"]
  /\ result' = [result EXCEPT ![t] = res]
  /\ is' = [is EXCEPT ![t] = 0]
  /\ rls' = [rls EXCEPT ![t] = 0]
  /\ ris' = [ris EXCEPT ![t] = 0]
  /\ hl' = [hl EXCEPT ![t] = 0]
  /\ validated' = [validated EXCEPT ![t] = "none"]
  /\ ran' = [ran EXCEPT ![t] = FALSE]
  /\ reported' = [reported EXCEPT ![t] = FALSE]

\* A panic at ledger.CurrentState(): only the recover is deferred so far; it
\* reports the error, runOnce returns without clearing i.current, and Tick
\* returns is.
RunOnceStatePanic(t) ==
  /\ pc[t] = "runOnce"
  /\ Returned(t, "session")
  /\ UNCHANGED <<ledgerState, lock, current, session, gapLogged>>
  /\ UNCHANGED <<reingestVars, auxVars>>

\* Where runOnce goes with the Session s it stashed and its ls.CoreElder:
\* the nil check, the empty-range check and the decision to validate.
Decide(sid, s, coreElder) ==
  IF sid = 0 THEN "cleanup"
  ELSE IF s.FirstLedger > s.LastLedger THEN "cleanup"
  ELSE IF s.FirstLedger # coreElder THEN "validate"
  ELSE "run"

\* lock; is := i.current; unlock; the cleanup is deferred; then the checks up
\* to the decision to validate. ls is not read after that.
RunOnceStash(t) ==
  /\ pc[t] = "stash"
  /\ lock = 0
  /\ ris' = [ris EXCEPT ![t] = current]
  /\ pc' = [pc EXCEPT ![t] =
       Decide(current, IF current = 0 THEN NoSession ELSE session[current],
              rls[t])]
  /\ rls' = [rls EXCEPT ![t] = 0]
  /\ UNCHANGED <<ledgerState, lock, current, session, is, result, hl,
                 validated, ran, reported, gapLogged>>
  /\ UNCHANGED <<reingestVars, auxVars>>

\* err := i.validateLedgerChain(is.Cursor.FirstLedger); on an error the gap is
\* logged and runOnce returns.
RunOnceValidate_IgnoreErr(t) ==
  /\ pc[t] = "validate"
  /\ \E db \in CoreDBs(session[ris[t]].FirstLedger) :
       LET verr == validateLedgerChain(db, session[ris[t]].FirstLedger)
       IN  /\ validated' = [validated EXCEPT ![t] =
                              IF verr = "nil" THEN "ok" ELSE "fail"]
           /\ gapLogged' = (gapLogged \/ verr # "nil")
           /\ pc' = [pc EXCEPT ![t] = "run"]
  /\ UNCHANGED <<ledgerState, lock, current, session, is, rls, ris, result,
                 hl, ran, reported>>
  /\ UNCHANGED <<reingestVars, auxVars>>

RunOnceValidate(t) ==
  /\ pc[t] = "validate"
  /\ \E db \in CoreDBs(session[ris[t]].FirstLedger) :
       LET verr == validateLedgerChain(db, session[ris[t]].FirstLedger)
       IN  /\ validated' = [validated EXCEPT ![t] =
                              IF verr = "nil" THEN "ok" ELSE "fail"]
           /\ gapLogged' = (gapLogged \/ verr # "nil")
           /\ pc' = [pc EXCEPT ![t] = IF verr = "nil" THEN "run" ELSE "cleanup"]
  /\ UNCHANGED <<ledgerState, lock, current, session, is, rls, ris, result,
                 hl, ran, reported>>
  /\ UNCHANGED <<reingestVars, auxVars>>

\* runOnce as it would be if it gave up i.current when is.Run() starts.
RunOnceRun_ReleasesSlot(t) ==
  /\ pc[t] = "run"
  /\ ran' = [ran EXCEPT ![t] = TRUE]
  /\ pc' = [pc EXCEPT ![t] = "running"]
  /\ current' = 0
  /\ UNCHANGED <<ledgerState, lock, session, is, rls, ris, result,
                 hl, validated, reported, gapLogged>>
  /\ UNCHANGED <<reingestVars, auxVars>>

\* is.Run() starts.
RunOnceRun(t) ==
  /\ pc[t] = "run"
  /\ ran' = [ran EXCEPT ![t] = TRUE]
  /\ pc' = [pc EXCEPT ![t] = "running"]
  /\ UNCHANGED <<ledgerState, lock, current, session, is, rls, ris, result,
                 hl, validated, reported, gapLogged>>
  /\ UNCHANGED <<reingestVars, auxVars>>

\* runOnce as it would be if it ran a failed Session again.
RunOnceRunEnd_Retry(t) ==
  /\ pc[t] = "running"
  /\ \E o \in RunOutcomes(session[ris[t]].FirstLedger,
                          session[ris[t]].LastLedger) :
       /\ session' = [session EXCEPT ![ris[t]] =
                        [@ EXCEPT !.Ingested = o.Ingested, !.Err = o.Err]]
       /\ pc' = [pc EXCEPT ![t] = IF o.Err = "nil" THEN "cleanup" ELSE "run"]
  /\ UNCHANGED <<ledgerState, lock, current, is, rls, ris, result,
                 hl, validated, ran, reported, gapLogged>>
  /\ UNCHANGED <<reingestVars, auxVars>>

\* is.Run() returns; is.Err is logged when set.
RunOnceRunEnd(t) ==
  /\ pc[t] = "running"
  /\ \E o \in RunOutcomes(session[ris[t]].FirstLedger,
                          session[ris[t]].LastLedger) :
       session' = [session EXCEPT ![ris[t]] =
                     [@ EXCEPT !.Ingested = o.Ingested, !.Err = o.Err]]
  /\ pc' = [pc EXCEPT ![t] = "cleanup"]
  /\ UNCHANGED <<ledgerState, lock, current, is, rls, ris, result,
                 hl, validated, ran, reported, gapLogged>>
  /\ UNCHANGED <<reingestVars, auxVars>>

\* A panic in validateLedgerChain or in is.Run(): the deferred cleanup runs
\* next, and the recover reports the error.
RunOncePanic(t) ==
  /\ pc[t] \in {"validate", "running"}
  /\ reported' = [reported EXCEPT ![t] = TRUE]
  /\ pc' = [pc EXCEPT ![t] = "cleanup"]
  /\ UNCHANGED <<ledgerState, lock, current, session, is, rls, ris, result,
                 hl, validated, ran, gapLogged>>
  /\ UNCHANGED <<reingestVars, auxVars>>

\* The deferred cleanup: lock; i.current = nil; unlock. runOnce returns and
\* Tick returns is; the Session goes to the caller.
RunOnceCleanup(t) ==
  /\ pc[t] = "cleanup"
  /\ lock = 0
  /\ current' = 0
  /\ session' = [session EXCEPT ![t] = NoSession]
  /\ Returned(t, "session")
  /\ UNCHANGED <<ledgerState, lock, gapLogged>>
  /\ UNCHANGED <<reingestVars, auxVars>>

\* The caller is free to call Tick again.
TickAgain(t) ==
  /\ pc[t] = "done"
  /\ pc' = [pc EXCEPT ![t] = "idle"]
  /\ result' = [result EXCEPT ![t] = "none"]
  /\ UNCHANGED <<ledgerState, lock, current, session, is, rls, ris, hl,
                 validated, ran, reported, gapLogged>>
  /\ UNCHANGED <<reingestVars, auxVars>>

Next ==
  \/ \E ls \in LedgerStates : SetState(ls)
  \/ \E t \in Ticks : TickLock(t)
  \/ \E t \in Ticks : TickBusy(t)
  \/ \E t \in Ticks : TickFree(t)
  \/ \E t \in Ticks : TickInstall(t)
  \/ \E t \in Ticks : TickInstallPanic(t)
  \/ \E t \in Ticks : RunOnceState(t)
  \/ \E t \in Ticks : RunOnceStatePanic(t)
  \/ \E t \in Ticks : RunOnceStash(t)
  \/ \E t \in Ticks : RunOnceValidate(t)
  \/ \E t \in Ticks : RunOnceRun(t)
  \/ \E t \in Ticks : RunOnceRunEnd(t)
  \/ \E t \in Ticks : RunOncePanic(t)
  \/ \E t \in Ticks : RunOnceCleanup(t)
  \/ \E t \in Ticks : TickAgain(t)

Spec == Init /\ [][Next]_vars


\* ------------------------------------------------------- ReingestOutdated
Min(S) == CHOOSE x \in S : \A y \in S : x <= y

RECURSIVE Ascending(_)
Ascending(S) == IF S = {} THEN <<>> ELSE <<Min(S)>> \o Ascending(S \ {Min(S)})

\* history.Q.OldestOutdatedLedgers: the outdated sequences, ascending.
OldestOutdatedLedgers(S) == Ascending(S)

\* The backlogs of the history store ReingestOutdated can be called on.
ReingestInit ==
  /\ TickInit
  /\ outdatedSet \in SUBSET (1..MaxOutdated)
  /\ ReingestIdle
  /\ StoreIdle
  /\ ValidatorIdle

\* After a successful query: return on an empty list, else scan it.
AfterQuery_NoEmptyCheck(lst) == "scan"

AfterQuery(lst) == IF Len(lst) = 0 THEN "returned" ELSE "scan"

\* ReingestOutdated as it would be with a bound of two passes.
ReingestQuery_TwoPasses ==
  /\ rpc = "query"
  /\ iter' = iter + 1
  /\ \/ /\ err' = "query"
        /\ rpc' = "returned"
        /\ UNCHANGED <<outdated, idx, start, end>>
     \/ /\ err' = "nil"
        /\ outdated' = OldestOutdatedLedgers(outdatedSet)
        /\ rpc' = IF iter >= 2 THEN "returned" ELSE AfterQuery(outdated')
        /\ idx' = 1
        /\ start' = 0
        /\ end' = 0
  /\ UNCHANGED <<outdatedSet, n, after, rsession, calls, backlog0, faithful>>
  /\ UNCHANGED <<tickVars, auxVars>>

\* err = q.OldestOutdatedLedgers(&outdated, CurrentVersion), the two early
\* returns, and the declaration of start and end for this pass.
ReingestQuery ==
  /\ rpc = "query"
  /\ iter' = iter + 1
  /\ \/ /\ err' = "query"
        /\ rpc' = "returned"
        /\ UNCHANGED <<outdated, idx, start, end>>
     \/ /\ err' = "nil"
        /\ outdated' = OldestOutdatedLedgers(outdatedSet)
        /\ rpc' = AfterQuery(outdated')
        /\ idx' = 1
        /\ start' = 0
        /\ end' = 0
  /\ UNCHANGED <<outdatedSet, n, after, rsession, calls, backlog0, faithful>>
  /\ UNCHANGED <<tickVars, auxVars>>

\* seq == end+1: seq extends the run [start, end].
Extends_OffByOne(seq, e) == seq = e

Extends(seq, e) == seq = e + 1

\* One round of `for idx := range outdated`, up to the call of flush(); when
\* the list is exhausted, the final flush().
ReingestScan ==
  /\ rpc = "scan"
  /\ IF idx <= Len(outdated)
       THEN LET seq == outdated[idx]
            IN  IF start = 0
                  THEN /\ start' = seq
                       /\ end' = seq
                       /\ idx' = idx + 1
                       /\ UNCHANGED <<rpc, after>>
                ELSE IF Extends(seq, end)
                  THEN /\ end' = seq
                       /\ idx' = idx + 1
                       /\ UNCHANGED <<rpc, after, start>>
                ELSE /\ rpc' = "flush"
                     /\ after' = "loop"
                     /\ UNCHANGED <<idx, start, end>>
       ELSE /\ rpc' = "flush"
            /\ after' = "final"
            /\ UNCHANGED <<idx, start, end>>
  /\ UNCHANGED <<outdatedSet, outdated, n, err, rsession, calls, iter,
                 backlog0, faithful>>
  /\ UNCHANGED <<tickVars, auxVars>>

\* ReingestRange as it would be without `is.ClearExisting = true`.
ReingestRangeCall_NoClear ==
  /\ rpc = "flush"
  /\ Len(calls) < MaxCalls
  /\ rsession' = NewSession(start, end)
  /\ rpc' = "running"
  /\ UNCHANGED <<outdatedSet, outdated, idx, start, end, n, err, after, calls,
                 iter, backlog0, faithful>>
  /\ UNCHANGED <<tickVars, auxVars>>

\* ReingestRange as it would be if reingestion went through the current slot.
ReingestRangeCall_TakesSlot ==
  /\ rpc = "flush"
  /\ Len(calls) < MaxCalls
  /\ lock = 0
  /\ current = 0
  /\ current' = NumTicks + 1
  /\ rsession' = [NewSession(start, end) EXCEPT !.ClearExisting = TRUE]
  /\ rpc' = "running"
  /\ UNCHANGED <<outdatedSet, outdated, idx, start, end, n, err, after, calls,
                 iter, backlog0, faithful>>
  /\ UNCHANGED <<ledgerState, lock, session, pc, is, rls, ris, result, hl,
                 validated, ran, reported, gapLogged>>
  /\ UNCHANGED auxVars

\* ReingestRange(start, end): is := NewSession(...); is.ClearExisting = true;
\* is.Run() starts.
ReingestRangeCall ==
  /\ rpc = "flush"
  /\ Len(calls) < MaxCalls
  /\ rsession' = [NewSession(start, end) EXCEPT !.ClearExisting = TRUE]
  /\ rpc' = "running"
  /\ UNCHANGED <<outdatedSet, outdated, idx, start, end, n, err, after, calls,
                 iter, backlog0, faithful>>
  /\ UNCHANGED <<tickVars, auxVars>>

\* flush(): the count that n holds after a ReingestRange that reported o.
FlushCount_AddBeforeCheck(m, o) == m + o.Ingested

FlushCount(m, o) == IF o.Err # "nil" THEN m ELSE m + o.Ingested

\* is.Run() ends and ReingestRange returns (is.Ingested, is.Err) to flush(),
\* which returns to the loop or to the end of the pass. A successful Session
\* re-ingests its range at the current version, but for the sequences `left`
\* that it leaves outdated.
ReingestRangeReturn ==
  /\ rpc = "running"
  /\ after \in {"loop", "final"}
  /\ \E o \in RunOutcomes(rsession.FirstLedger, rsession.LastLedger) :
     \E left \in SUBSET (outdatedSet \cap
                           (rsession.FirstLedger..rsession.LastLedger)) :
       /\ (o.Err # "nil") =>
            left = outdatedSet \cap (rsession.FirstLedger..rsession.LastLedger)
       /\ outdatedSet' = (outdatedSet \
                            (rsession.FirstLedger..rsession.LastLedger))
                           \cup left
       /\ faithful' = (faithful /\ (o.Err = "nil" => left = {}))
       /\ calls' = Append(calls, [start |-> rsession.FirstLedger,
                                  end |-> rsession.LastLedger,
                                  Ingested |-> o.Ingested,
                                  Err |-> o.Err,
                                  it |-> iter])
       /\ store' = RunWrites(store, rsession, o)
       /\ n' = FlushCount(n, o)
       /\ IF o.Err # "nil"
            THEN /\ err' = o.Err
                 /\ rpc' = "returned"
                 /\ UNCHANGED <<idx, start, end>>
            ELSE /\ err' = "nil"
                 /\ IF after = "loop"
                      THEN /\ start' = outdated[idx]
                           /\ end' = outdated[idx]
                           /\ idx' = idx + 1
                           /\ rpc' = "scan"
                      ELSE /\ rpc' = "query"
                           /\ UNCHANGED <<idx, start, end>>
  /\ rsession' = NoSession
  /\ after' = "none"
  /\ UNCHANGED <<outdated, iter, backlog0, lastOk, coreDB, vseq, vres>>
  /\ UNCHANGED tickVars

ReingestNext ==
  \/ ReingestQuery
  \/ ReingestScan
  \/ ReingestRangeCall
  \/ ReingestRangeReturn

\* ReingestOutdated runs on its caller's goroutine: it takes its next step as
\* long as it has one.
ReingestSpec ==
  ReingestInit /\ [][ReingestNext]_vars /\ WF_vars(ReingestNext)

\* ------------------------------------------------ reingestion entry points
\* A caller about to call one of the reingestion entry points.
ReingestAtEntry ==
  /\ rpc = "entry"
  /\ outdated = <<>>
  /\ idx = 1
  /\ start = 0
  /\ end = 0
  /\ n = 0
  /\ err = "nil"
  /\ after = "none"
  /\ rsession = NoSession
  /\ calls = <<>>
  /\ iter = 0
  /\ faithful = TRUE
  /\ backlog0 = outdatedSet

\* A caller enters ReingestRange with the arguments (s, e).
EnterRange(s, e) ==
  /\ rpc = "entry"
  /\ start' = s
  /\ end' = e
  /\ after' = "direct"
  /\ rpc' = "flush"
  /\ UNCHANGED <<outdatedSet, outdated, idx, n, err, rsession, calls, iter,
                 backlog0, faithful>>
  /\ UNCHANGED <<tickVars, auxVars>>

\* ReingestRange(start, end), called by an operator.
ReingestRange(s, e) == EnterRange(s, e)

\* ReingestAll: ls := ledger.CurrentState();
\* return i.ReingestRange(ls.CoreElder, ls.CoreLatest).
ReingestAll == EnterRange(ledgerState.CoreElder, ledgerState.CoreLatest)

\* ReingestSingle(sequence): i.ReingestRange(sequence, sequence).
ReingestSingle(seq) == EnterRange(seq, seq)

\* ReingestOutdated is entered: its first statement is the outdated query.
ReingestOutdated ==
  /\ rpc = "entry"
  /\ rpc' = "query"
  /\ UNCHANGED <<outdatedSet, outdated, idx, start, end, n, err, after,
                 rsession, calls, iter, backlog0, faithful>>
  /\ UNCHANGED <<tickVars, auxVars>>

\* The latest run of successful calls over one range, after a call over
\* [first, last] that returned e.
CountRun(first, last, e) ==
  IF e # "nil" THEN NoRange
  ELSE IF lastOk.times > 0 /\ lastOk.first = first /\ lastOk.last = last
    THEN [lastOk EXCEPT !.times = 2]
  ELSE [first |-> first, last |-> last, times |-> 1]

\* is.Run() ends and ReingestRange returns (is.Ingested, is.Err) to the
\* operator (ReingestAll passes both on, ReingestSingle the error).
ReingestDirectReturn ==
  /\ rpc = "running"
  /\ after = "direct"
  /\ \E o \in RunOutcomes(rsession.FirstLedger, rsession.LastLedger) :
       /\ store' = RunWrites(store, rsession, o)
       /\ outdatedSet' = IF o.Err = "nil"
                           THEN outdatedSet \
                                  (rsession.FirstLedger..rsession.LastLedger)
                         ELSE outdatedSet
       /\ n' = o.Ingested
       /\ err' = o.Err
       /\ lastOk' = CountRun(rsession.FirstLedger, rsession.LastLedger, o.Err)
  /\ rpc' = "returned"
  /\ rsession' = NoSession
  /\ after' = "none"
  /\ UNCHANGED <<outdated, idx, start, end, calls, iter, backlog0, faithful>>
  /\ UNCHANGED <<coreDB, vseq, vres>>
  /\ UNCHANGED tickVars

\* The operator is free to call a reingestion entry point again.
ReingestCallAgain ==
  /\ rpc = "returned"
  /\ rpc' = "entry"
  /\ start' = 0
  /\ end' = 0
  /\ n' = 0
  /\ err' = "nil"
  /\ UNCHANGED <<outdatedSet, outdated, idx, after, rsession, calls, iter,
                 backlog0, faithful>>
  /\ UNCHANGED <<tickVars, auxVars>>

\* Repeated ReingestRange calls, on every content of the history store.
StoreInit ==
  /\ ledgerState \in LedgerStates
  /\ TickIdle
  /\ outdatedSet = {}
  /\ ReingestAtEntry
  /\ store \in [StoreLedgers -> Rows]
  /\ lastOk = NoRange
  /\ ValidatorIdle

StoreNext ==
  \/ \E s \in StoreLedgers : \E e \in StoreLedgers : s <= e /\ ReingestRange(s, e)
  \/ ReingestAll
  \/ \E seq \in StoreLedgers : ReingestSingle(seq)
  \/ ReingestRangeCall
  \/ ReingestDirectReturn
  \/ ReingestCallAgain

StoreSpec == StoreInit /\ [][StoreNext]_vars

\* Ticks and one reingestion call side by side, on a core store holding
\* ledgers 1..MaxLedger and each length of history.
MixedInit ==
  /\ ledgerState \in {s \in LedgerStates :
                        s.CoreElder = 1 /\ s.CoreLatest = MaxLedger}
  /\ TickIdle
  /\ outdatedSet = {}
  /\ ReingestAtEntry
  /\ StoreIdle
  /\ ValidatorIdle

MixedNext ==
  \/ \E t \in Ticks : TickLock(t)
  \/ \E t \in Ticks : TickBusy(t)
  \/ \E t \in Ticks : TickFree(t)
  \/ \E t \in Ticks : TickInstall(t)
  \/ \E t \in Ticks : TickInstallPanic(t)
  \/ \E t \in Ticks : RunOnceState(t)
  \/ \E t \in Ticks : RunOnceStatePanic(t)
  \/ \E t \in Ticks : RunOnceStash(t)
  \/ \E t \in Ticks : RunOnceValidate(t)
  \/ \E t \in Ticks : RunOnceRun(t)
  \/ \E t \in Ticks : RunOnceRunEnd(t)
  \/ \E t \in Ticks : RunOncePanic(t)
  \/ \E t \in Ticks : RunOnceCleanup(t)
  \/ \E t \in Ticks : TickAgain(t)
  \/ \E s \in StoreLedgers : \E e \in StoreLedgers : s <= e /\ ReingestRange(s, e)
  \/ ReingestAll
  \/ \E seq \in StoreLedgers : ReingestSingle(seq)
  \/ ReingestOutdated
  \/ ReingestQuery
  \/ ReingestRangeCall
  \/ ReingestDirectReturn

MixedSpec == MixedInit /\ [][MixedNext]_vars

\* ------------------------------------------------ validateLedgerChain alone
\* Every content of the core store for the sequences 0..MaxLedger.
ValidatorInit ==
  /\ TickInit
  /\ outdatedSet = {}
  /\ ReingestIdle
  /\ StoreIdle
  /\ coreDB \in [0..MaxLedger -> Headers \cup {NotFound}]
  /\ vseq = 0
  /\ vres = "none"

\* err := i.validateLedgerChain(seq) on the core store coreDB.
ValidatorCall(seq) ==
  /\ vseq' = seq
  /\ vres' = validateLedgerChain(coreDB, seq)
  /\ UNCHANGED <<store, lastOk, coreDB>>
  /\ UNCHANGED <<tickVars, reingestVars>>

ValidatorNext == \E seq \in 1..(MaxLedger + 1) : ValidatorCall(seq)

ValidatorSpec == ValidatorInit /\ [][ValidatorNext]_vars

\* ================================================================ claims
\* The positions of a Tick between its install and its release of i.current.
InstalledPcs == {"runOnce", "stash", "validate", "run", "running", "cleanup"}

\* A step in which caller t returns the no-op (nil) result.
ReturnsNil(t) == pc[t] = "check" /\ pc'[t] = "done" /\ result'[t] = "nil"

\* C1: at most one Tick is between install and release, and the Session in
\* i.current is that Tick's own; a Tick that finds i.current non-empty returns
\* nil and changes neither the slot nor any Session, nor validates or runs
\* anything; a Session is only ever installed into an empty slot, by the
\* holder of the lock.
C1_SingleFlight ==
  /\ [](/\ \A t \in Ticks : pc[t] \in InstalledPcs => current = t /\ is[t] = t
        /\ Cardinality({t \in Ticks : pc[t] \in InstalledPcs}) <= 1)
  /\ [][\A t \in Ticks :
          /\ ReturnsNil(t) =>
               /\ current # 0
               /\ current' = current
               /\ session' = session
               /\ validated' = validated
               /\ ran' = ran
          /\ (current' = t /\ current # t) => (current = 0 /\ lock = t)]_vars

\* C1 witness: one Tick's Session is running while another Tick got nil.
C1_Witness ==
  \E t, u \in Ticks : t # u /\ pc[t] = "running" /\ result[u] = "nil"

\* C2 (as claimed): whenever no Tick call is in progress the slot is empty,
\* i.e. every Tick that installed a Session released the slot before it
\* returned.
C2_SlotReleasedOnReturn ==
  (\A t \in Ticks : pc[t] \in {"idle", "done"}) => current = 0

\* C3 (as claimed): no panic raised during a Tick call leaves Tick, and no
\* caller that is outside Tick holds the lock.
C3_PanicContained ==
  \A t \in Ticks :
    /\ result[t] # "panic"
    /\ pc[t] \in {"idle", "done"} => lock # t

\* C4 (as claimed): a Tick that runs a Session whose range was computed from a
\* non-empty history (HistoryLatest # 0) has validated the chain at the
\* Session's first ledger, successfully, before.
C4_ValidatedBeforeRun ==
  \A t \in Ticks : (ran[t] /\ hl[t] # 0) => validated[t] = "ok"

\* C5 (as claimed): a Tick whose non-empty range was computed from an empty
\* history (HistoryLatest = 0, start = CoreElder) never invokes the chain
\* validator.
C5_NoValidatorOnEmptyHistory ==
  \A t \in Ticks :
    (/\ pc[t] \in InstalledPcs
     /\ hl[t] = 0
     /\ session[t].FirstLedger <= session[t].LastLedger)
      => (pc[t] # "validate" /\ validated[t] = "none")

\* The range the spec gives for a ledger state ls.
TickStart(ls) ==
  IF ls.HistoryLatest = 0 THEN ls.CoreElder ELSE ls.HistoryLatest + 1

\* C6: the step that installs a Session is taken by the lock holder and
\* installs a Session over [start, end] of the ledger state of that step,
\* end = CoreLatest, start = CoreElder for an empty history and
\* HistoryLatest + 1 otherwise, with clear-existing = false; the range and the
\* mode do not change while the Session is installed.
C6_TickRange ==
  [][\A t \in Ticks :
       /\ (pc[t] = "install" /\ pc'[t] = "runOnce") =>
            /\ lock = t
            /\ current' = t
            /\ session'[t].FirstLedger = TickStart(ledgerState)
            /\ session'[t].LastLedger = ledgerState.CoreLatest
            /\ session'[t].ClearExisting = FALSE
       /\ (pc[t] \in InstalledPcs /\ pc'[t] \in InstalledPcs) =>
            /\ session'[t].FirstLedger = session[t].FirstLedger
            /\ session'[t].LastLedger = session[t].LastLedger
            /\ session'[t].ClearExisting = FALSE]_vars

\* C6 witness: a Session installed for a non-empty history and a non-empty
\* range.
C6_Witness ==
  \E t \in Ticks :
    /\ pc[t] = "runOnce"
    /\ current = t
    /\ hl[t] > 0
    /\ session[t].FirstLedger = hl[t] + 1
    /\ session[t].FirstLedger <= session[t].LastLedger
    /\ session[t].LastLedger = ledgerState.CoreLatest
    /\ ledgerState.CoreElder < ledgerState.CoreLatest

\* C7: once the chain validator has failed in a Tick, that Tick's Session is
\* not run and the Tick is on its way to the cleanup; its next step releases
\* the slot, leaves the lock free and returns the Session to the caller (no
\* panic, no error), leaving the System as an idle one.
C7_GapAborts ==
  /\ [](\A t \in Ticks :
          validated[t] = "fail" =>
            (~ran[t] /\ ~reported[t] /\ pc[t] = "cleanup" /\ current = t))
  /\ [][\A t \in Ticks :
          (validated[t] = "fail" /\ pc'[t] # pc[t]) =>
            /\ pc'[t] = "done"
            /\ result'[t] = "session"
            /\ current' = 0
            /\ lock' = 0
            /\ ~ran'[t]]_vars

\* C7 witness: after a gap was detected by an earlier Tick, a Tick has
\* validated the chain and runs its Session.
C7_Witness ==
  /\ gapLogged
  /\ \E t \in Ticks : pc[t] = "running" /\ validated[t] = "ok"

\* ---- ReingestOutdated
\* The ranges of the ReingestRange calls of pass k, in call order.
RECURSIVE RangesOf(_, _)
RangesOf(cs, k) ==
  IF cs = <<>> THEN <<>>
  ELSE IF Head(cs).it = k
    THEN <<[start |-> Head(cs).start, end |-> Head(cs).end]>>
           \o RangesOf(Tail(cs), k)
  ELSE RangesOf(Tail(cs), k)

Elems(q) == {q[i] : i \in 1..Len(q)}

Covered(rs) == UNION {rs[i].start..rs[i].end : i \in 1..Len(rs)}

\* The first elements of the maximal runs of consecutive numbers of S.
RunHeads(S) == {a \in S : a - 1 \notin S}

\* A pass has issued its last flush without a failure.
PassDone == rpc = "query" /\ iter > 0

\* C8: the ranges a pass issues are ascending, pairwise disjoint and
\* non-adjacent and cover only listed numbers; once the pass is done they
\* cover the list exactly and are as many as the list has maximal runs.
C8_Coalesce ==
  LET rs == RangesOf(calls, iter)
  IN  /\ \A i \in 1..Len(rs) : rs[i].start <= rs[i].end
      /\ \A i, j \in 1..Len(rs) : i < j => rs[i].end + 1 < rs[j].start
      /\ Covered(rs) \subseteq Elems(outdated)
      /\ PassDone =>
           /\ Covered(rs) = Elems(outdated)
           /\ Len(rs) = Cardinality(RunHeads(Elems(outdated)))

\* C8 witness: a pass over a list with a gap is done, with several ranges, one
\* of them longer than one ledger.
C8_Witness ==
  LET rs == RangesOf(calls, iter)
  IN  /\ PassDone
      /\ Len(rs) >= 2
      /\ \E i \in 1..Len(rs) : rs[i].start < rs[i].end

\* C9: ReingestOutdated returns with a nil error only right after a query that
\* returned the empty list; a pass that ends without a failure is followed by
\* a new query; when every successful ReingestRange cleared its range, a nil
\* return comes after one pass over the initial backlog (none when it was
\* empty), and ReingestOutdated does return.
C9_Drains ==
  /\ []((rpc = "returned" /\ err = "nil") =>
          /\ outdated = <<>>
          /\ RangesOf(calls, iter) = <<>>
          /\ faithful =>
               /\ iter = (IF backlog0 = {} THEN 1 ELSE 2)
               /\ Covered(RangesOf(calls, 1)) = backlog0
               /\ Len(calls) = Cardinality(RunHeads(backlog0)))
  /\ [][(rpc = "running" /\ after = "final" /\ err' = "nil")
          => rpc' = "query"]_vars
  /\ (rpc # "returned") ~> (rpc = "returned" \/ ~faithful)

\* C9 witness: the backlog {3,4,5}, one ReingestRange(3,5), an empty second
\* query, a nil return.
C9_Witness ==
  /\ backlog0 = {3, 4, 5}
  /\ rpc = "returned"
  /\ err = "nil"
  /\ iter = 2
  /\ Len(calls) = 1
  /\ calls[1].start = 3
  /\ calls[1].end = 5

RECURSIVE SumIngested(_)
SumIngested(cs) ==
  IF cs = <<>> THEN 0
  ELSE (IF Head(cs).Err = "nil" THEN Head(cs).Ingested ELSE 0)
         + SumIngested(Tail(cs))

\* C10: n is the sum of the counts of the ReingestRange calls that succeeded;
\* only the last call can have failed, and then ReingestOutdated has returned
\* that error with no query after it; a failed query returns its error with no
\* ReingestRange call in its pass; an error is only ever held at the return.
C10_StopsAtFirstError ==
  /\ n = SumIngested(calls)
  /\ \A i \in 1..Len(calls) :
       calls[i].Err # "nil" =>
         /\ i = Len(calls)
         /\ rpc = "returned"
         /\ err = calls[i].Err
         /\ iter = calls[i].it
  /\ err = "query" =>
       /\ rpc = "returned"
       /\ RangesOf(calls, iter) = <<>>
       /\ \A i \in 1..Len(calls) : calls[i].Err = "nil"
  /\ err # "nil" => rpc = "returned"

\* C10 witness: a ReingestRange failed after others succeeded; its own count is
\* not zero and is not in n.
C10_Witness ==
  /\ rpc = "returned"
  /\ err = "session"
  /\ Len(calls) >= 2
  /\ calls[Len(calls)].Ingested > 0
  /\ n > 0

\* C11: the reingestion entry points never read or write i.current and never
\* take i.lock. Every step of a reingestion call leaves the lock, the slot,
\* the Sessions and the Tick calls as they are; the Session it runs is a fresh
\* one with ClearExisting set, over the range asked for; whatever the Ticks
\* are doing an entry point can be entered and its Session started; and a Tick
\* that returns nil found a Tick's Session in i.current, never the
\* reingestion's.
C11_ReingestOutsideSlot ==
  /\ [][rpc' # rpc => UNCHANGED tickVars]_vars
  /\ [][(rpc = "flush" /\ rpc' = "running") =>
          rsession' = [FirstLedger |-> start, LastLedger |-> end,
                       ClearExisting |-> TRUE, Ingested |-> 0,
                       Err |-> "nil"]]_vars
  /\ [](rsession # NoSession => rsession.ClearExisting)
  /\ [](rpc = "entry" =>
          /\ ENABLED ReingestAll
          /\ ENABLED ReingestOutdated
          /\ \A seq \in StoreLedgers : ENABLED ReingestSingle(seq))
  /\ [](rpc = "flush" => ENABLED ReingestRangeCall)
  /\ [](rpc = "running" => ENABLED ReingestDirectReturn)
  /\ [][\A t \in Ticks :
          ReturnsNil(t) =>
            /\ current \in Ticks
            /\ ~session[current].ClearExisting
            /\ UNCHANGED reingestVars]_vars

\* C11 witness: a reingestion Session and a Tick's Session are both running,
\* over ranges that share a ledger.
C11_Witness ==
  /\ rpc = "running"
  /\ \E t \in Ticks :
       /\ pc[t] = "running"
       /\ current = t
       /\ session[t].FirstLedger <= rsession.LastLedger
       /\ rsession.FirstLedger <= session[t].LastLedger

\* The errors validateLedgerChain wraps around a failed header lookup, and
\* the one it makes for a broken chain.
LookupErrors == {"failed to load cur ledger", "failed to load prev ledger"}
ChainError == "cur and prev ledger hashes don't match"

\* The core store holds a header for seq.
Present(seq) == seq \in DOMAIN coreDB /\ coreDB[seq].found

\* C12: validateLedgerChain(seq) returns nil exactly when the core store
\* holds the headers of seq and of seq-1 and the PrevHash of the first is the
\* LedgerHash of the second; with a header missing it returns a lookup error,
\* with both present and different hashes the chain error, and the two kinds
\* differ; the call changes nothing but its own result.
C12_ChainCheck ==
  /\ [](vseq # 0 =>
          /\ (vres = "nil") <=>
               /\ Present(vseq)
               /\ Present(vseq - 1)
               /\ coreDB[vseq].PrevHash = coreDB[vseq - 1].LedgerHash
          /\ (~Present(vseq) \/ ~Present(vseq - 1)) => vres \in LookupErrors
          /\ (/\ Present(vseq)
              /\ Present(vseq - 1)
              /\ coreDB[vseq].PrevHash # coreDB[vseq - 1].LedgerHash)
               => vres = ChainError
          /\ ChainError \notin LookupErrors)
  /\ [][UNCHANGED <<coreDB, store, lastOk, tickVars, reingestVars>>]_vars

\* C12 witness: the three outcomes on one core store: ledger 1 follows ledger
\* 0, ledger MaxLedger does not follow its predecessor, and the call on the
\* sequence after the last one found no header.
C12_Witness ==
  /\ vseq = MaxLedger + 1
  /\ vres \in LookupErrors
  /\ validateLedgerChain(coreDB, 1) = "nil"
  /\ validateLedgerChain(coreDB, MaxLedger) = ChainError

\* The positions of a Tick while validateLedgerChain or is.Run() executes.
WorkingPcs == {"validate", "run", "running"}

\* C13: while the validator or the Session of a Tick executes, that Tick has
\* not returned and i.current is still its Session; i.current is cleared, and
\* a Tick that went past validation returns, only from the deferred cleanup,
\* after both have finished; and for as long as a Session keeps running the
\* slot stays its own and every Tick that reaches the entry check returns nil.
C13_OccupiedWhileRunning ==
  /\ [](\A t \in Ticks :
          pc[t] \in WorkingPcs => current = t /\ result[t] = "none")
  /\ [][\A t \in Ticks :
          /\ (current = t /\ current' # t) => pc[t] = "cleanup"
          /\ (pc[t] \in InstalledPcs /\ pc'[t] = "done") =>
               pc[t] \in {"runOnce", "cleanup"}
          /\ (pc[t] \in WorkingPcs /\ pc'[t] \notin WorkingPcs) =>
               pc'[t] = "cleanup"
          /\ (pc[t] = "running" /\ pc'[t] = "running") =>
               /\ current' = t
               /\ \A u \in Ticks :
                    (pc[u] = "check" /\ pc'[u] # "check") => ReturnsNil(u)]_vars

\* C13 witness: while the Session of one Tick runs after a passed validation,
\* a later Tick has reached the entry check.
C13_Witness ==
  \E t \in Ticks : \E u \in Ticks :
    /\ pc[t] = "running"
    /\ validated[t] = "ok"
    /\ pc[u] = "check"
    /\ lock = u

\* A ReingestRange call returns nil to its caller in this step.
RangeSucceeds ==
  rpc = "running" /\ after = "direct" /\ rpc' = "returned" /\ err' = "nil"

\* C14: when ReingestRange(start, end) returns nil, every ledger of
\* [start, end] holds exactly the freshly ingested data, whatever it held
\* before, and the data of every other ledger is as it was; when the call
\* before it was a successful ReingestRange over the same range, the store
\* after the second call is the store after the first.
C14_RangeIdempotent ==
  [][RangeSucceeds =>
       /\ \A l \in StoreLedgers :
            IF l \in rsession.FirstLedger..rsession.LastLedger
              THEN store'[l] = "fresh"
            ELSE store'[l] = store[l]
       /\ (/\ lastOk.times > 0
           /\ lastOk.first = rsession.FirstLedger
           /\ lastOk.last = rsession.LastLedger) => store' = store]_vars

\* C14 witness: ReingestRange has succeeded twice in a row over one range of
\* more than one ledger, and returned the length of the range.
C14_Witness ==
  /\ rpc = "returned"
  /\ err = "nil"
  /\ lastOk.times = 2
  /\ lastOk.first < lastOk.last
  /\ \A l \in lastOk.first..lastOk.last : store[l] = "fresh"
  /\ n = lastOk.last - lastOk.first + 1

\* The passes of ReingestOutdated that ended without a failure.
PassesDone == 1..(IF PassDone THEN iter ELSE iter - 1)

\* C15: nothing but an error or an empty outdated set ends ReingestOutdated.
\* It returns nil only when no sequence is outdated any more; a successful
\* query that finds outdated sequences starts another pass, whatever the
\* number of passes before it; every pass that ended without a failure called
\* ReingestRange over each sequence that is still outdated; and short of a
\* return the loop always has a next step (up to the cap on calls).
C15_NoIterationBound ==
  /\ []((rpc = "returned" /\ err = "nil") => outdatedSet = {})
  /\ [](\A k \in PassesDone :
          outdatedSet \subseteq Covered(RangesOf(calls, k)))
  /\ []((rpc # "returned" /\ Len(calls) < MaxCalls) => ENABLED ReingestNext)
  /\ [][(rpc = "query" /\ err' = "nil" /\ outdatedSet # {}) =>
          rpc' = "scan"]_vars

\* C15 witness: a sequence is still outdated after as many passes as the cap
\* on calls allows, each of which made one successful ReingestRange call over
\* it.
C15_Witness ==
  /\ PassDone
  /\ iter = MaxCalls
  /\ Len(calls) = MaxCalls
  /\ \E s \in outdatedSet :
       \A i \in 1..MaxCalls :
         /\ calls[i].it = i
         /\ calls[i].Err = "nil"
         /\ s \in calls[i].start..calls[i].end

\* C16: i.lock is held only for the check-then-install step of Tick and for
\* the read and the clear of i.current in runOnce (each one step here), never
\* while the validator or a Session executes: whoever holds the lock is a Tick
\* between its Lock and its Unlock; and while a Session runs, the holder is at
\* the entry check, its next step returns nil and frees the lock.
C16_LockHeldBriefly ==
  /\ \A t \in Ticks : lock = t => pc[t] \in {"check", "install"}
  /\ lock \in Ticks \cup {0}
  /\ \A t \in Ticks :
       pc[t] \in WorkingPcs => (lock # t /\ (lock # 0 => pc[lock] = "check"))

\* C17: a Tick whose Session has an empty range (FirstLedger > LastLedger)
\* installs it, never reaches the validator or is.Run(), and has released
\* i.current when it returns; while that Session is installed every other Tick
\* at the entry check is refused.
C17_EmptyRangeNoOp ==
  \A t \in Ticks :
    session[t].FirstLedger > session[t].LastLedger =>
      /\ current = t
      /\ pc[t] \in InstalledPcs \ WorkingPcs
      /\ validated[t] = "none"
      /\ ~ran[t]
      /\ \A u \in Ticks : pc[u] = "check" => ~ENABLED TickFree(u)

\* C18: in one Tick call validateLedgerChain is called at most once and
\* is.Run() at most once, the validator before the Session: the validator's
\* outcome is set once, from the validate position, before any run; is.Run()
\* starts once, from the run position, and once it has ended the call only
\* goes on to the cleanup; a Session with Err set is past its run and is
\* discarded at the return; and every install builds a Session with no
\* outcome yet, for the ledger state of that moment.
C18_OnceEach ==
  /\ [](\A t \in Ticks :
          /\ pc[t] \in {"validate", "run"} => ~ran[t]
          /\ pc[t] = "validate" => validated[t] = "none"
          /\ pc[t] = "running" => ran[t] /\ validated[t] # "fail"
          /\ session[t].Err \notin {"nil", "unset"} =>
               pc[t] = "cleanup" /\ ran[t]
          /\ pc[t] \notin InstalledPcs => ~ran[t] /\ validated[t] = "none")
  /\ [][\A t \in Ticks :
          /\ validated'[t] \notin {validated[t], "none"} =>
               pc[t] = "validate" /\ validated[t] = "none" /\ ~ran[t]
          /\ (ran'[t] /\ ~ran[t]) => pc[t] = "run" /\ pc'[t] = "running"
          /\ (pc'[t] = "running" /\ pc[t] # "running") => ~ran[t]
          /\ (pc'[t] = "validate" /\ pc[t] # "validate") =>
               validated[t] = "none"
          /\ (pc[t] = "running" /\ pc'[t] # "running") => pc'[t] = "cleanup"
          /\ (pc[t] = "cleanup" /\ pc'[t] # "cleanup") => pc'[t] = "done"
          /\ (pc[t] = "install" /\ pc'[t] = "runOnce") =>
               /\ session[t] = NoSession
               /\ session'[t] = newTickSession(ledgerState)
               /\ session'[t].Err = "nil"
               /\ session'[t].Ingested = 0]_vars

\* C18 witness: after a passed validation the Session has run and ended with
\* Err set; the call is on its way out.
C18_Witness ==
  \E t \in Ticks :
    /\ pc[t] = "cleanup"
    /\ validated[t] = "ok"
    /\ ran[t]
    /\ session[t].Err = "session"

\* C19: with Ticks and reingestion calls interleaved in every way, a Tick
\* inside runOnce finds in i.current the Session it installed itself: from
\* the install to the read i.current is that Session, the read never finds
\* nil, the Session runOnce validates, runs and clears is the one its own
\* Tick holds in `is` and returns, and i.current is only ever cleared by the
\* Tick that installed it.
C19_OwnSession ==
  /\ [](\A t \in Ticks :
          /\ pc[t] \in InstalledPcs => current = t /\ is[t] = t
          /\ pc[t] \in {"runOnce", "stash"} => ris[t] = 0
          /\ pc[t] \in WorkingPcs \cup {"cleanup"} => ris[t] = t)
  /\ [][\A t \in Ticks :
          /\ (pc[t] = "stash" /\ pc'[t] # "stash") =>
               /\ current = t
               /\ ris'[t] = t
               /\ pc'[t] = Decide(t, session[t], rls[t])
          /\ (current = t /\ current' # t) =>
               pc[t] = "cleanup" /\ ris[t] = t /\ current' = 0
          /\ (pc[t] \in InstalledPcs /\ pc'[t] = "done") =>
               is[t] = t /\ result'[t] = "session"]_vars

\* C19 witness: a Tick has read its own Session back and run it, while a
\* reingestion Session runs and another Tick has been refused.
C19_Witness ==
  /\ rpc = "running"
  /\ \E t \in Ticks : \E u \in Ticks :
       /\ pc[t] = "cleanup"
       /\ ran[t]
       /\ ris[t] = t
       /\ pc[u] = "done"
       /\ result[u] = "nil"

\* C20: Tick returns nil exactly when it found i.current set at its entry
\* check, and in every other case it returns the Session it installed,
\* whether or not that Session was validated or run: a Tick leaves the entry
\* check with nil if and only if the slot is taken, a Tick call that ends
\* gives nil only from the entry check and otherwise the Session held in its
\* `is`, and a call that is over gave its caller one of the two.
C20_NilIffBusy ==
  /\ [](\A t \in Ticks :
          /\ pc[t] = "done" => result[t] \in {"nil", "session"}
          /\ pc[t] \in InstalledPcs => is[t] = t /\ result[t] = "none")
  /\ [][\A t \in Ticks :
          /\ (pc[t] = "check" /\ pc'[t] # "check") =>
               ((current # 0) <=> (pc'[t] = "done" /\ result'[t] = "nil"))
          /\ (pc[t] # "done" /\ pc'[t] = "done") =>
               /\ (result'[t] = "nil") <=> (pc[t] = "check")
               /\ result'[t] # "nil" =>
                    result'[t] = "session" /\ is[t] = t]_vars

====
